---- MODULE Spec2Model ----
(***************************************************************************)
(* Flower Shop catalog backend (src/flower-shop-backend.py).               *)
(*                                                                         *)
(* The catalog table "flowers" and the storage bucket are the two external *)
(* stores; every handler is one atomic action that performs the handler's  *)
(* store calls in the order of the code.  A store call may fail (raise);   *)
(* the outcome of each call is an input of the action.                     *)
(*                                                                         *)
(* Optional values: None is the empty tuple, a present value v is <<v>>.   *)
(* A text (name, type, unit, tags, file name) is the tuple of its          *)
(* characters, so that substring search and slicing are computed; a URL is *)
(* the tuple of its path segments, the last of which is the object key.    *)
(***************************************************************************)
EXTENDS Integers, Sequences, FiniteSets, TLC

VARIABLES supabase, flowers, storage, nextId, nextUuid, req, resp, calls, faulted

vars == <<supabase, flowers, storage, nextId, nextUuid, req, resp, calls, faulted>>

(* ---------------------------- bounds ----------------------------------- *)
MaxFlowers == 2
MaxUploads == 2

(* ---------------------------- values ----------------------------------- *)
None == <<>>
Some(v) == <<v>>
Val(o) == o[1]

SUPABASE_BUCKET == "flower-images"
LowStockLimit == 10
TagsCut == 30

EmptyText == <<>>
Rose == <<"R", "o", "s", "e">>
Lily == <<"L", "i", "l", "y">>
Red == <<"R", "e", "d">>
White == <<"W", "h", "i", "t", "e">>
Bunch == <<"b", "u", "n", "c", "h">>
Stem == <<"s", "t", "e", "m">>
Gift == <<"g", "i", "f", "t">>
RosePng == <<"r", ".", "p", "n", "g">>
(* the sentinel of the type filter, written without its diacritics *)
AllTypes == <<"T", "a", "t", " ", "c", "a">>

(* Python truthiness of the values the handlers test. *)
TruthyStr(o) == o # None /\ Val(o) # EmptyText
TruthyInt(o) == o # None /\ Val(o) # 0

(* image and image.filename *)
HasImage(image) == image # None /\ Val(image) # EmptyText

(* supabase.storage.from_(bucket).get_public_url(filename) *)
get_public_url(filename) == <<"storage", "v1", "object", "public", SUPABASE_BUCKET, filename>>

(* url.split("/")[-1] *)
LastSegment(url) == url[Len(url)]

(* the same file name for every upload *)
FreshFilename_fixed(u) == 1

(* f"flower_{uuid.uuid4().hex}.jpg": a key no earlier upload produced *)
FreshFilename(u) == u

(* one store call of a request: the operation, what it was given or what   *)
(* it returned, and whether it succeeded                                   *)
Call(name, arg, ok) == [call |-> name, arg |-> arg, ok |-> ok]

(* ------------------------ upload_image_to_supabase --------------------- *)
(* outcome: "ok", "resize_error" (read or resize_image raises) or          *)
(* "upload_error" (the storage upload raises).  Every exception is caught  *)
(* and turned into a None result.                                          *)
UploadOutcomes == {"ok", "resize_error", "upload_error"}

(* the public URL returned although the upload raised *)
upload_image_url_despite_error(outcome, store, u) ==
    IF outcome = "resize_error"
    THEN [url |-> None, storage |-> store, calls |-> <<>>, used |-> FALSE]
    ELSE IF outcome = "upload_error"
    THEN [url |-> Some(get_public_url(FreshFilename(u))), storage |-> store,
          calls |-> <<Call("storage.upload", FreshFilename(u), FALSE)>>, used |-> TRUE]
    ELSE [url |-> Some(get_public_url(FreshFilename(u))),
          storage |-> store \cup {FreshFilename(u)},
          calls |-> <<Call("storage.upload", FreshFilename(u), TRUE)>>, used |-> TRUE]

upload_image_to_supabase(outcome, store, u) ==
    IF outcome = "resize_error"
    THEN [url |-> None, storage |-> store, calls |-> <<>>, used |-> FALSE]
    ELSE IF outcome = "upload_error"
    THEN [url |-> None, storage |-> store,
          calls |-> <<Call("storage.upload", FreshFilename(u), FALSE)>>, used |-> TRUE]
    ELSE [url |-> Some(get_public_url(FreshFilename(u))),
          storage |-> store \cup {FreshFilename(u)},
          calls |-> <<Call("storage.upload", FreshFilename(u), TRUE)>>, used |-> TRUE]

AnyFailed(cs) == \E i \in 1..Len(cs) : ~cs[i].ok

Respond(status, body) == [status |-> status, body |-> body]

Init ==
    /\ supabase \in BOOLEAN
    /\ flowers = <<>>
    /\ storage = {}
    /\ nextId = 1
    /\ nextUuid = 1
    /\ req = [op |-> "none"]
    /\ resp = Respond(0, None)
    /\ calls = <<>>
    /\ faulted = FALSE

(* ------------------------------ create_flower -------------------------- *)
NoUpload(store) == [url |-> None, storage |-> store, calls |-> <<>>, used |-> FALSE]

(* the upload undone when the insert raises *)
StorageAfterCreate_rollback(up, insertOk) == IF insertOk THEN up.storage ELSE storage

(* lines 108-112: the bucket after the request; nothing is undone when the *)
(* insert raises                                                           *)
StorageAfterCreate(up, insertOk) == up.storage

create_flower(form, image, upOutcome, insertOk) ==
    /\ nextId <= MaxFlowers
    /\ HasImage(image) => nextUuid <= MaxUploads
    /\ req' = [op |-> "create", form |-> form, image |-> image]
    /\ IF ~supabase
       THEN /\ resp' = Respond(500, None)
            /\ calls' = <<>>
            /\ UNCHANGED <<flowers, storage, nextId, nextUuid, faulted>>
       ELSE LET up == IF HasImage(image)
                      THEN upload_image_to_supabase(upOutcome, storage, nextUuid)
                      ELSE NoUpload(storage)
                data == [id |-> nextId, name |-> form.name, price |-> form.price,
                         type |-> form.type, unit |-> form.unit, stock |-> form.stock,
                         tags |-> form.tags, image_url |-> up.url, created_at |-> nextId]
                cs == up.calls \o <<Call("flowers.insert", nextId, insertOk)>>
            IN  /\ storage' = StorageAfterCreate(up, insertOk)
                /\ nextUuid' = IF up.used THEN nextUuid + 1 ELSE nextUuid
                /\ calls' = cs
                /\ faulted' = (faulted \/ AnyFailed(cs))
                /\ IF insertOk
                   THEN /\ flowers' = Append(flowers, data)
                        /\ nextId' = nextId + 1
                        /\ resp' = Respond(200, Some(data))
                   ELSE /\ resp' = Respond(500, None)
                        /\ UNCHANGED <<flowers, nextId>>
    /\ UNCHANGED supabase

(* ------------------------------ update_flower -------------------------- *)
FormFields == {"name", "price", "type", "unit", "stock", "tags"}
DataFields == FormFields \cup {"image_url"}

(* lines 118-124: which form values enter the update dictionary *)
DataOfForm(form) ==
    [name  |-> IF TruthyStr(form.name) THEN form.name ELSE None,
     price |-> IF TruthyInt(form.price) THEN form.price ELSE None,
     type  |-> IF TruthyStr(form.type) THEN form.type ELSE None,
     unit  |-> IF TruthyStr(form.unit) THEN form.unit ELSE None,
     stock |-> IF form.stock # None THEN form.stock ELSE None,
     tags  |-> IF form.tags # None THEN form.tags ELSE None,
     image_url |-> None]

(* the emptiness check left out *)
EmptyData_never(data) == FALSE

EmptyData(data) == \A k \in DataFields : data[k] = None

(* table.update(data).eq("id", flower_id): the row with the keys of data replaced *)
ApplyData(f, data) ==
    [k \in DOMAIN f |-> IF k \in DataFields /\ data[k] # None
                        THEN (IF k = "image_url" THEN data[k] ELSE Val(data[k]))
                        ELSE f[k]]

Matching(rows, flower_id) == SelectSeq(rows, LAMBDA f : f.id = flower_id)

update_flower(flower_id, form, image, upOutcome, updateOk) ==
    /\ HasImage(image) => nextUuid <= MaxUploads
    /\ req' = [op |-> "update", id |-> flower_id, form |-> form, image |-> image]
    /\ IF ~supabase
       THEN /\ resp' = Respond(500, None)
            /\ calls' = <<>>
            /\ UNCHANGED <<flowers, storage, nextId, nextUuid, faulted>>
       ELSE LET up == IF HasImage(image)
                      THEN upload_image_to_supabase(upOutcome, storage, nextUuid)
                      ELSE NoUpload(storage)
                data == [DataOfForm(form) EXCEPT !.image_url = up.url]
                updated == [i \in 1..Len(flowers) |->
                               IF flowers[i].id = flower_id
                               THEN ApplyData(flowers[i], data) ELSE flowers[i]]
                hit == Matching(updated, flower_id)
            IN  /\ storage' = up.storage
                /\ nextUuid' = IF up.used THEN nextUuid + 1 ELSE nextUuid
                /\ UNCHANGED nextId
                /\ IF EmptyData(data)
                   THEN /\ resp' = Respond(400, None)
                        /\ calls' = up.calls
                        /\ faulted' = (faulted \/ AnyFailed(up.calls))
                        /\ UNCHANGED flowers
                   ELSE LET cs == up.calls \o <<Call("flowers.update", flower_id, updateOk)>>
                        IN  /\ calls' = cs
                            /\ faulted' = (faulted \/ AnyFailed(cs))
                            /\ IF ~updateOk
                               THEN /\ resp' = Respond(500, None)
                                    /\ UNCHANGED flowers
                               ELSE /\ flowers' = updated
                                    /\ resp' = IF hit = <<>>
                                               THEN Respond(404, None)
                                               ELSE Respond(200, Some(hit[1]))
    /\ UNCHANGED supabase

(* ------------------------------ delete_flower -------------------------- *)
(* select("image_url").eq("id", flower_id): the image_url of the matching rows *)
ImageUrls(rows, flower_id) ==
    LET hit == Matching(rows, flower_id) IN [i \in 1..Len(hit) |-> hit[i].image_url]

(* a removal asked for every row found, with an empty key for a null URL *)
DeleteKeys_everyRow(urls) ==
    IF urls # <<>>
    THEN <<IF urls[1] # None THEN LastSegment(Val(urls[1])) ELSE 0>>
    ELSE <<>>

(* lines 140-141: the object keys the handler asks the bucket to remove *)
DeleteKeys(urls) ==
    IF urls # <<>> /\ urls[1] # None THEN <<LastSegment(Val(urls[1]))>> ELSE <<>>

(* the removal error raised again *)
GoesOnAfterRemove_reraise(removeOk) == removeOk

(* lines 142-143: try ... except: pass; the request goes on whatever the   *)
(* outcome of the removal                                                  *)
GoesOnAfterRemove(removeOk) == TRUE

delete_flower(flower_id, selectOk, removeOk, deleteOk) ==
    /\ req' = [op |-> "delete", id |-> flower_id]
    /\ UNCHANGED <<supabase, nextId, nextUuid>>
    /\ IF ~supabase
       THEN /\ resp' = Respond(500, None)
            /\ calls' = <<>>
            /\ UNCHANGED <<flowers, storage, faulted>>
       ELSE IF ~selectOk
       THEN /\ resp' = Respond(500, None)
            /\ calls' = <<Call("flowers.select", None, FALSE)>>
            /\ faulted' = TRUE
            /\ UNCHANGED <<flowers, storage>>
       ELSE LET urls == ImageUrls(flowers, flower_id)
                keys == DeleteKeys(urls)
                removes == [i \in 1..Len(keys) |-> Call("storage.remove", keys[i], removeOk)]
                goesOn == keys = <<>> \/ GoesOnAfterRemove(removeOk)
                cs == <<Call("flowers.select", urls, TRUE)>> \o removes
                      \o (IF goesOn THEN <<Call("flowers.delete", flower_id, deleteOk)>> ELSE <<>>)
            IN  /\ calls' = cs
                /\ faulted' = (faulted \/ AnyFailed(cs))
                /\ storage' = IF removeOk THEN storage \ {keys[i] : i \in 1..Len(keys)}
                                          ELSE storage
                /\ IF goesOn /\ deleteOk
                   THEN /\ flowers' = SelectSeq(flowers, LAMBDA f : f.id # flower_id)
                        /\ resp' = Respond(200, Some("Deleted"))
                   ELSE /\ resp' = Respond(500, None)
                        /\ UNCHANGED flowers

(* ------------------------------ get_flowers ---------------------------- *)
Lower(c) == CASE c = "R" -> "r" [] c = "L" -> "l" [] c = "W" -> "w"
              [] c = "T" -> "t" [] OTHER -> c

LowerText(t) == [i \in 1..Len(t) |-> Lower(t[i])]

(* column ILIKE '%pat%' *)
ILike(t, pat) ==
    \E i \in 0..(Len(t) - Len(pat)) :
        SubSeq(LowerText(t), i + 1, i + Len(pat)) = LowerText(pat)

(* order("created_at", desc=True) of rows kept in ascending created_at *)
RECURSIVE Reverse(_)
Reverse(s) == IF s = <<>> THEN <<>> ELSE Append(Reverse(Tail(s)), Head(s))

Min(a, b) == IF a < b THEN a ELSE b

(* range(first, last): the rows at offsets first..last, both inclusive *)
Range(rows, first, last) == SubSeq(rows, first + 1, Min(last + 1, Len(rows)))

TypeFilter(rows, type) ==
    IF TruthyStr(type) /\ Val(type) # AllTypes
    THEN SelectSeq(rows, LAMBDA f : f.type = Val(type))
    ELSE rows

(* an exclusive threshold *)
LteStock_exclusive(rows) == SelectSeq(rows, LAMBDA f : f.stock < LowStockLimit)

(* query.lte("stock", 10) *)
LteStock(rows) == SelectSeq(rows, LAMBDA f : f.stock <= LowStockLimit)

FlowersQuery(rows, search, type, tags, low_stock, skip, limit) ==
    LET q1 == IF TruthyStr(search)
              THEN SelectSeq(rows, LAMBDA f : ILike(f.name, Val(search))) ELSE rows
        q2 == TypeFilter(q1, type)
        q3 == IF TruthyStr(tags)
              THEN SelectSeq(q2, LAMBDA f : ILike(f.tags, Val(tags))) ELSE q2
        q4 == IF low_stock THEN LteStock(q3) ELSE q3
    IN  Range(Reverse(q4), skip, skip + limit - 1)

ReadOnly == UNCHANGED <<supabase, flowers, storage, nextId, nextUuid>>

get_flowers(search, type, tags, low_stock, skip, limit, queryOk) ==
    /\ req' = [op |-> "list", search |-> search, type |-> type, tags |-> tags,
               low_stock |-> low_stock, skip |-> skip, limit |-> limit]
    /\ ReadOnly
    /\ IF ~supabase
       THEN /\ resp' = Respond(500, None)
            /\ calls' = <<>>
            /\ UNCHANGED faulted
       ELSE /\ calls' = <<Call("flowers.select", "*", queryOk)>>
            /\ faulted' = (faulted \/ ~queryOk)
            /\ resp' = IF queryOk
                       THEN LET data == FlowersQuery(flowers, search, type, tags,
                                                     low_stock, skip, limit)
                            IN  Respond(200, [flowers |-> data, count |-> Len(data)])
                       ELSE Respond(500, None)

(* ------------------------------ get_stats ------------------------------ *)
flower_types == <<Red, White>>

RECURSIVE SumPrice(_)
SumPrice(rows) == IF rows = <<>> THEN 0 ELSE Head(rows).price + SumPrice(Tail(rows))

LowStockCount(rows) == Len(SelectSeq(rows, LAMBDA f : f.stock <= LowStockLimit))

(* no guard and no handler: a missing client or a failing query is an     *)
(* unhandled exception, which the framework answers with status 500        *)
get_stats(flowersOk, typesOk) ==
    /\ req' = [op |-> "stats"]
    /\ ReadOnly
    /\ IF ~supabase
       THEN /\ resp' = Respond(500, None)
            /\ calls' = <<>>
            /\ UNCHANGED faulted
       ELSE LET cs == IF flowersOk
                      THEN <<Call("flowers.select", "*", TRUE), Call("flower_types.select", "*", typesOk)>>
                      ELSE <<Call("flowers.select", "*", FALSE)>>
            IN  /\ calls' = cs
                /\ faulted' = (faulted \/ AnyFailed(cs))
                /\ resp' = IF ~AnyFailed(cs)
                           THEN Respond(200, [total_flowers |-> Len(flowers),
                                              total_types |-> Len(flower_types),
                                              total_value |-> SumPrice(flowers),
                                              low_stock_count |-> LowStockCount(flowers)])
                           ELSE Respond(500, None)

(* ------------------------------ exports -------------------------------- *)
Digit == <<"0", "1", "2", "3", "4", "5", "6", "7", "8", "9">>

(* str(n) for n >= 0 *)
RECURSIVE Str(_)
Str(n) == IF n < 10 THEN <<Digit[n + 1]>> ELSE Append(Str(n \div 10), Digit[(n % 10) + 1])

(* f"{n:,}".replace(",", ".") on the digits of n *)
RECURSIVE Grouped(_)
Grouped(d) ==
    IF Len(d) <= 3 THEN d
    ELSE Grouped(SubSeq(d, 1, Len(d) - 3)) \o <<".">> \o SubSeq(d, Len(d) - 2, Len(d))

ExcelHeaders == <<"STT", "Ten hoa", "Gia (VND)", "Loai", "Quy cach", "Ton kho", "Tags">>
PdfHeaders == <<"STT", "Ten hoa", "Gia", "Loai", "Quy cach", "Ton", "Tags">>

(* the sheet row number written as the index *)
ExcelRow_rowNumber(idx, f) == <<idx, f.name, f.price, f.type, f.unit, f.stock, f.tags>>

(* lines 178-179: the cells written in sheet row idx *)
ExcelRow(idx, f) == <<idx - 1, f.name, f.price, f.type, f.unit, f.stock, f.tags>>

(* lines 175-179: enumerate(flowers, 2) fills rows 2.. below the header *)
ExcelSheet(rows) ==
    [r \in 1..(Len(rows) + 1) |-> IF r = 1 THEN ExcelHeaders ELSE ExcelRow(r, rows[r - 1])]

(* line 200 *)
PdfRow(i, f) ==
    <<Str(i), f.name, Grouped(Str(f.price)), f.type, f.unit, Str(f.stock),
      SubSeq(f.tags, 1, Min(TagsCut, Len(f.tags)))>>

(* lines 198-200: enumerate(flowers, 1) appends below the header *)
PdfTable(rows) == <<PdfHeaders>> \o [i \in 1..Len(rows) |-> PdfRow(i, rows[i])]

export_excel(type, queryOk) ==
    /\ req' = [op |-> "excel", type |-> type]
    /\ ReadOnly
    /\ IF ~supabase
       THEN /\ resp' = Respond(500, None)
            /\ calls' = <<>>
            /\ UNCHANGED faulted
       ELSE /\ calls' = <<Call("flowers.select", "*", queryOk)>>
            /\ faulted' = (faulted \/ ~queryOk)
            /\ resp' = IF queryOk
                       THEN LET data == TypeFilter(flowers, type)
                            IN  Respond(200, [records |-> data, sheet |-> ExcelSheet(data)])
                       ELSE Respond(500, None)

export_pdf(type, queryOk) ==
    /\ req' = [op |-> "pdf", type |-> type]
    /\ ReadOnly
    /\ IF ~supabase
       THEN /\ resp' = Respond(500, None)
            /\ calls' = <<>>
            /\ UNCHANGED faulted
       ELSE /\ calls' = <<Call("flowers.select", "*", queryOk)>>
            /\ faulted' = (faulted \/ ~queryOk)
            /\ resp' = IF queryOk
                       THEN LET data == TypeFilter(flowers, type)
                            IN  Respond(200, [records |-> data, table |-> PdfTable(data),
                                              total |-> Str(Len(data))])
                       ELSE Respond(500, None)

(* ------------------------------ requests ------------------------------- *)
Form(name, price, type, unit, stock, tags) ==
    [name |-> name, price |-> price, type |-> type, unit |-> unit, stock |-> stock, tags |-> tags]

(* create: name, price, type and unit are required form fields *)
RoseForm == Form(Rose, 50000, Red, Bunch, 5, EmptyText)
LilyForm == Form(Lily, 1200, White, Stem, 11, Gift)

NoForm == Form(None, None, None, None, None, None)
NameOnly == Form(Some(Rose), None, None, None, None, None)

PatchForms ==
    { NoForm,
      Form(Some(Lily), None, None, None, None, None),
      Form(None, Some(0), None, None, Some(0), None),
      Form(Some(EmptyText), None, Some(EmptyText), Some(EmptyText), None, Some(EmptyText)),
      Form(None, Some(700), Some(White), Some(Stem), Some(10), Some(Gift)) }

Ids == 1..(MaxFlowers + 1)
Outcomes(relevant) == IF relevant THEN BOOLEAN ELSE {TRUE}
RowHasBlob(id) == \E i \in 1..Len(flowers) : flowers[i].id = id /\ flowers[i].image_url # None

(* Catalog life cycle: every handler that writes, with and without image,  *)
(* and every outcome of every store call.                                   *)
Create ==
    \E image \in {None, Some(RosePng)} :
    \E up \in (IF HasImage(image) THEN UploadOutcomes ELSE {"ok"}), insertOk \in BOOLEAN :
        create_flower(RoseForm, image, up, insertOk)

Update ==
    \E id \in Ids, form \in {NoForm, NameOnly}, image \in {None, Some(EmptyText), Some(RosePng)} :
    \E up \in (IF HasImage(image) THEN UploadOutcomes ELSE {"ok"}), updateOk \in BOOLEAN :
        update_flower(id, form, image, up, updateOk)

Delete ==
    \E id \in Ids, selectOk \in BOOLEAN, deleteOk \in BOOLEAN :
    \E removeOk \in Outcomes(selectOk /\ RowHasBlob(id)) :
        delete_flower(id, selectOk, removeOk, deleteOk)

Next == Create \/ Update \/ Delete

Spec == Init /\ [][Next]_vars

(* Partial updates: every form of PatchForms against the rows created.     *)
CreatePlain == \E form \in {RoseForm, LilyForm} : create_flower(form, None, "ok", TRUE)

Patch == \E id \in Ids, form \in PatchForms : update_flower(id, form, None, "ok", TRUE)

NextPatch == CreatePlain \/ Patch

SpecPatch == Init /\ [][NextPatch]_vars

(* Queries and reports over catalogs of rows with different stock.         *)
Restock ==
    \E id \in Ids, stock \in {10, 11} :
        update_flower(id, Form(None, None, None, None, Some(stock), None), None, "ok", TRUE)

List ==
    \E low_stock \in BOOLEAN, limit \in {1, 100}, queryOk \in BOOLEAN :
        get_flowers(None, None, None, low_stock, 0, limit, queryOk)

Stats == \E flowersOk \in BOOLEAN, typesOk \in BOOLEAN : get_stats(flowersOk, typesOk)

Excel == \E type \in {None, Some(Red)}, queryOk \in BOOLEAN : export_excel(type, queryOk)

Pdf == \E type \in {None, Some(Red)}, queryOk \in BOOLEAN : export_pdf(type, queryOk)

NextRead == CreatePlain \/ Restock \/ List \/ Stats \/ Excel \/ Pdf

SpecRead == Init /\ [][NextRead]_vars

(* ======================================================================= *)
(* Properties                                                              *)
(* ======================================================================= *)
HasCall(cs, name) == \E i \in 1..Len(cs) : cs[i].call = name
FailedCall(cs, name) == \E i \in 1..Len(cs) : cs[i].call = name /\ ~cs[i].ok
OkCall(cs, name) == \E i \in 1..Len(cs) : cs[i].call = name /\ cs[i].ok
Stored(rows, id) == Matching(rows, id) # <<>>

(* an update request that carries no form field and no image *)
EmptyUpdate(r) == r.op = "update" /\ r.form = NoForm /\ r.image = None

(* C1, as stated: every update request with no form field and no image is *)
(* answered with status 400 and no store call is made (so that catalog and *)
(* bucket are left as they were).                                          *)
C1_EmptyUpdateIs400 ==
    EmptyUpdate(req) => (resp.status = 400 /\ calls = <<>>)

(* C1, amended: every update request with no form field and no image is   *)
(* rejected without any store call and without a change to the catalog or  *)
(* the bucket; the status is 400 when the store client is connected and    *)
(* 500 when it is not.                                                     *)
C1_EmptyUpdateRejected ==
    [][EmptyUpdate(req') =>
         /\ resp'.status = (IF supabase THEN 400 ELSE 500)
         /\ calls' = <<>>
         /\ flowers' = flowers /\ storage' = storage]_vars

C1_Witness ==
    /\ EmptyUpdate(req) /\ resp.status = 400
    /\ Stored(flowers, req.id)

(* C2: after a successful update, every form field the request supplies   *)
(* (a price of 0, a stock of 0 and an empty text included) is the value    *)
(* the stored row holds, and every field it does not supply is unchanged.  *)
C2_MergeRule ==
    [][(req'.op = "update" /\ resp'.status = 200) =>
         \A i \in 1..Len(flowers) :
            flowers[i].id = req'.id =>
               \A k \in FormFields :
                  flowers'[i][k] = (IF req'.form[k] # None THEN Val(req'.form[k])
                                                         ELSE flowers[i][k])]_vars

(* C3: a delete whose lookup finds no row for the id is answered with      *)
(* status 404, as an update of an absent id is, and asks the bucket for no *)
(* removal (here for a connected client whose store calls all succeed).    *)
C3_DeleteAbsentIs404 ==
    (/\ req.op = "delete"
     /\ calls # <<>> /\ calls[1] = Call("flowers.select", <<>>, TRUE)
     /\ ~AnyFailed(calls)) =>
        (resp.status = 404 /\ ~HasCall(calls, "storage.remove"))

(* a create request with an image whose normalisation or upload failed *)
CreateUploadFailed ==
    /\ req.op = "create" /\ HasImage(req.image) /\ supabase
    /\ ~OkCall(calls, "storage.upload")

(* C4: when a create request carries an image and normalisation or upload *)
(* fails, the insert is still issued, with image_url null; when the insert *)
(* succeeds the answer is 200 with the created row, which is in the        *)
(* catalog.                                                                *)
C4_UploadFailureNotFatal ==
    CreateUploadFailed =>
        /\ HasCall(calls, "flowers.insert")
        /\ OkCall(calls, "flowers.insert") =>
              /\ resp.status = 200
              /\ Val(resp.body).image_url = None
              /\ flowers # <<>> /\ flowers[Len(flowers)] = Val(resp.body)

C4_Witness ==
    /\ CreateUploadFailed /\ FailedCall(calls, "storage.upload")
    /\ resp.status = 200 /\ Val(resp.body).image_url = None

Referenced(rows, key) ==
    \E i \in 1..Len(rows) :
        rows[i].image_url # None /\ LastSegment(Val(rows[i].image_url)) = key

(* C5: when the upload of a create request succeeds and the insert fails,  *)
(* the answer is 500, the catalog is unchanged, the uploaded blob is in    *)
(* the bucket, no row references it, and no removal was attempted.         *)
C5_OrphanedBlob ==
    [][(req'.op = "create" /\ OkCall(calls', "storage.upload")
          /\ FailedCall(calls', "flowers.insert")) =>
         /\ resp'.status = 500
         /\ flowers' = flowers
         /\ calls'[1].arg \in storage' \ storage
         /\ ~Referenced(flowers', calls'[1].arg)
         /\ ~HasCall(calls', "storage.remove")]_vars

C5_Witness ==
    /\ req.op = "create" /\ OkCall(calls, "storage.upload")
    /\ FailedCall(calls, "flowers.insert")
    /\ resp.status = 500 /\ calls[1].arg \in storage

(* C6: when the removal of a deleted row's blob fails, the failure is      *)
(* swallowed: the catalog delete is still issued, and when it succeeds the *)
(* row is gone and the answer is 200.                                      *)
C6_RemoveFailureSwallowed ==
    (req.op = "delete" /\ FailedCall(calls, "storage.remove")) =>
        /\ HasCall(calls, "flowers.delete")
        /\ OkCall(calls, "flowers.delete") =>
              /\ resp.status = 200
              /\ ~Stored(flowers, req.id)

C6_Witness ==
    /\ req.op = "delete" /\ FailedCall(calls, "storage.remove")
    /\ OkCall(calls, "flowers.delete") /\ resp.status = 200
    /\ calls[2].arg \in storage

(* C7: deleting a row whose image_url is null issues the catalog lookup    *)
(* and the catalog delete only, no bucket removal, and leaves the bucket   *)
(* as it was.                                                              *)
C7_NoRemoveForNullImage ==
    [][(req'.op = "delete" /\ Stored(flowers, req'.id)
          /\ Matching(flowers, req'.id)[1].image_url = None) =>
         /\ ~HasCall(calls', "storage.remove")
         /\ \A i \in 1..Len(calls') : calls'[i].call \in {"flowers.select", "flowers.delete"}
         /\ storage' = storage]_vars

C7_Witness ==
    /\ req.op = "delete" /\ resp.status = 200
    /\ calls = <<Call("flowers.select", <<None>>, TRUE), Call("flowers.delete", req.id, TRUE)>>
    /\ storage # {}

(* C10: as long as no store call has failed, every row with a non-null     *)
(* image_url references a blob that is in the bucket, and no two rows      *)
(* reference the same blob.                                                *)
C10_ReferencedBlobsExist ==
    ~faulted =>
        /\ \A i \in 1..Len(flowers) :
              flowers[i].image_url # None =>
                 LastSegment(Val(flowers[i].image_url)) \in storage
        /\ \A i, j \in 1..Len(flowers) :
              (i # j /\ flowers[i].image_url # None) =>
                 flowers[i].image_url # flowers[j].image_url

C10_Witness ==
    /\ ~faulted
    /\ req.op = "delete" /\ OkCall(calls, "storage.remove") /\ resp.status = 200
    /\ \E i \in 1..Len(flowers) : flowers[i].image_url # None

(* the cells of a report row that come from the record *)
RecordCells(f) == <<f.name, f.type, f.unit>>
RowCells(row) == <<row[2], row[4], row[5]>>

(* C8: both exports hold one data row per record returned by the store, in *)
(* the order of the records, row k carrying index k in its first column;   *)
(* for no record only the header row is there and the PDF total is 0.      *)
C8_OneRowPerRecordInOrder ==
    /\ (req.op = "excel" /\ resp.status = 200) =>
          LET recs == resp.body.records
              sheet == resp.body.sheet
          IN  /\ DOMAIN sheet = 1..(Len(recs) + 1)
              /\ sheet[1] = ExcelHeaders
              /\ \A k \in 1..Len(recs) :
                    sheet[k + 1] = <<k, recs[k].name, recs[k].price, recs[k].type,
                                     recs[k].unit, recs[k].stock, recs[k].tags>>
    /\ (req.op = "pdf" /\ resp.status = 200) =>
          LET recs == resp.body.records
              table == resp.body.table
          IN  /\ Len(table) = Len(recs) + 1
              /\ table[1] = PdfHeaders
              /\ \A k \in 1..Len(recs) :
                    table[k + 1][1] = <<Digit[k + 1]>>
                    /\ RowCells(table[k + 1]) = RecordCells(recs[k])
              /\ resp.body.total = <<Digit[Len(recs) + 1]>>
              /\ recs = <<>> => (table = <<PdfHeaders>> /\ resp.body.total = <<"0">>)

C8_Witness ==
    /\ req.op = "pdf" /\ resp.status = 200
    /\ Len(resp.body.records) = 2
    /\ resp.body.records[1].name # resp.body.records[2].name
    /\ resp.body.table[3][1] = <<"2">>

(* a list request with only the low_stock filter, on its first page *)
LowStockList ==
    /\ req.op = "list" /\ resp.status = 200 /\ req.low_stock /\ req.skip = 0
    /\ req.search = None /\ req.type = None /\ req.tags = None

LowStockRows == {i \in 1..Len(flowers) : flowers[i].stock <= 10}

ListedIds == {resp.body.flowers[i].id : i \in 1..Len(resp.body.flowers)}

(* C9: with the page large enough for all matches, a low_stock list holds  *)
(* exactly the rows with stock <= 10 (stock 10 in, stock 11 out), and the  *)
(* low_stock_count of the stats counts the same rows.                      *)
C9_LowStockInclusive ==
    /\ (LowStockList /\ req.limit >= Cardinality(LowStockRows)) =>
          /\ \A i \in 1..Len(flowers) :
                /\ flowers[i].stock = 10 => flowers[i].id \in ListedIds
                /\ flowers[i].stock = 11 => flowers[i].id \notin ListedIds
                /\ flowers[i].id \in ListedIds <=> flowers[i].stock <= 10
          /\ resp.body.count = Cardinality(ListedIds)
    /\ (req.op = "stats" /\ resp.status = 200) =>
          resp.body.low_stock_count = Cardinality(LowStockRows)

C9_Witness ==
    /\ LowStockList /\ req.limit >= Cardinality(LowStockRows)
    /\ \E i, j \in 1..Len(flowers) :
          /\ flowers[i].stock = 10 /\ flowers[i].id \in ListedIds
          /\ flowers[j].stock = 11 /\ flowers[j].id \notin ListedIds

====
